---- MODULE Spec2Model ----
(***************************************************************************)
(* Materials inventory dashboard: the materials and stock_history tables   *)
(* of the store (with the update_material_status trigger, the CHECK        *)
(* constraint and the row-level-security policies), two browser sessions   *)
(* running the StockUpdates page (handleSubmit, one step per await), the   *)
(* Materials page's add / edit form, and the client-side report functions. *)
(*                                                                         *)
(* NUMERIC values are fixed-point integers counting units of 1/Scale.      *)
(* Timestamps count ticks, TicksPerDay ticks to a day.                     *)
(***************************************************************************)
EXTENDS Integers, Sequences, FiniteSets, TLC

VARIABLES
    materials,   \* public.materials: id -> row, for the ids that exist
    history,     \* public.stock_history, in insertion order
    now,         \* the wall clock (NOW() / new Date()), in ticks
    cache,       \* StockUpdates `materials` state per session: id -> current_quantity
    pc,          \* where each session's handleSubmit stands
    req,         \* the locals of the handleSubmit in flight
    res,         \* what the last finished handleSubmit of a session did
    toast,       \* the last toast of a session's handleSubmit
    nSubmits,    \* submissions so far (bounds the run)
    created_qty, \* id -> current_quantity the row was inserted with
    probe,       \* one evaluation of a client-side report function
    suppliers,   \* public.suppliers: the ids that exist
    warehouses,  \* public.warehouses: the ids that exist
    fetched      \* what the last select of a page returned

vars == <<materials, history, now, cache, pc, req, res, toast, nSubmits,
          created_qty, probe, suppliers, warehouses, fetched>>

----------------------------------------------------------------------------
\* Bounds of the model.

MaxQty == 3
MaxThreshold == 2
MaxUsage == 2
MaxLead == 1
MaxNow == 1
MaxSubmits == 2
MaxDelta == 2
TicksPerDay == 2
Scale == 2

----------------------------------------------------------------------------
\* Values.

NULL == 0 - 1000
\* a null supplier_id / warehouse_id
NoRef == "null"

MatOrder == <<"m1", "m2">>
MatIds == {MatOrder[i] : i \in 1..Len(MatOrder)}
SupOrder == <<"s1">>
SupIds == {SupOrder[i] : i \in 1..Len(SupOrder)}
WhOrder == <<"w1", "w2">>
WhIds == {WhOrder[i] : i \in 1..Len(WhOrder)}
\* browser sessions; those of Clients run the StockUpdates page
Sessions == {"c1", "c2", "c3"}
Clients == {"c1", "c2"}
NoUser == "none"
SessionUser == [c \in Sessions |-> IF c = "c1" THEN "u1" ELSE IF c = "c2" THEN "u2" ELSE "u3"]
UserRoles == [u \in {"u1", "u2", "u3"} |->
                IF u = "u1" THEN {"manager"} ELSE IF u = "u2" THEN {"operator"} ELSE {"admin"}]
Status == {"critical", "low", "safe"}
NoSelection == ""

Max(a, b) == IF a >= b THEN a ELSE b

----------------------------------------------------------------------------
\* The trigger update_material_status and what it computes.

\* the thresholds compared with < instead of <=
deriveStatusStrict(q, s, r) ==
    IF q < s THEN "critical" ELSE IF q < r THEN "low" ELSE "safe"

\* IF current_quantity <= safety_stock ... ELSIF current_quantity <= reorder_point
deriveStatus(q, s, r) ==
    IF q <= s THEN "critical" ELSE IF q <= r THEN "low" ELSE "safe"

\* the quotient truncated to whole days
intervalWholeDays(q, u) == (q \div u) * TicksPerDay

\* (current_quantity / avg_daily_usage || ' days')::INTERVAL : the NUMERIC
\* quotient, fraction included, read as an interval and rounded to the
\* timestamp resolution.
intervalDays(q, u) == (2 * q * TicksPerDay + u) \div (2 * u)

\* IF NEW.avg_daily_usage > 0 THEN NOW() + interval ELSE NULL
deriveShortageDate(q, u, t) ==
    IF u # NULL /\ u > 0 /\ q # NULL THEN t + intervalDays(q, u) ELSE NULL

\* the trigger without its status rule: the payload's status is stored
trigger_keepsStatus(new, t) ==
    [new EXCEPT !.shortage_date = deriveShortageDate(new.current_quantity, new.avg_daily_usage, t),
                !.updated_at = t]

\* the trigger without its ELSE branch: an earlier shortage_date stays
trigger_keepsShortage(new, t) ==
    [new EXCEPT !.shortage_date = IF new.avg_daily_usage # NULL /\ new.avg_daily_usage > 0
                                  THEN deriveShortageDate(new.current_quantity, new.avg_daily_usage, t)
                                  ELSE @,
                !.status = deriveStatus(new.current_quantity, new.safety_stock, new.reorder_point),
                !.updated_at = t]

\* BEFORE INSERT OR UPDATE ON public.materials FOR EACH ROW
update_material_status(new, t) ==
    [new EXCEPT !.shortage_date = deriveShortageDate(new.current_quantity, new.avg_daily_usage, t),
                !.status = deriveStatus(new.current_quantity, new.safety_stock, new.reorder_point),
                !.updated_at = t]

\* the NOT NULL constraints without the CHECK
rowConstraintsNoCheck(row) ==
    /\ row.current_quantity # NULL
    /\ row.reorder_point # NULL
    /\ row.safety_stock # NULL

\* NOT NULL and CHECK (current_quantity >= 0) of public.materials
rowConstraints(row) ==
    /\ row.current_quantity # NULL /\ row.current_quantity >= 0
    /\ row.reorder_point # NULL
    /\ row.safety_stock # NULL

\* supplier_id UUID REFERENCES suppliers(id), warehouse_id UUID REFERENCES
\* warehouses(id): null, or the id of a row that exists (the form's "" for
\* "none selected" is no uuid and is refused)
foreignKeys(row) ==
    /\ row.supplier_id = NoRef \/ row.supplier_id \in suppliers
    /\ row.warehouse_id = NoRef \/ row.warehouse_id \in warehouses

\* every signed-in user holding every role
has_roleAny(u, role) == u # NoUser

\* SELECT EXISTS (SELECT 1 FROM user_roles WHERE user_id = _user_id AND role = _role)
has_role(u, role) == u # NoUser /\ role \in UserRoles[u]

----------------------------------------------------------------------------
\* Client-side report functions.

\* Math.floor((shortage_date - now) / one day)
floorDays(shortage, t) == (shortage - t) \div TicksPerDay

\* Materials.getDaysUntilShortage: "N/A", "<n> days" or "Stock out"
Materials_getDaysUntilShortage(shortage, t) ==
    IF shortage = NULL THEN "N/A"
    ELSE IF floorDays(shortage, t) > 0
         THEN ToString(floorDays(shortage, t)) \o " days"
         ELSE "Stock out"

\* the floored difference returned as it is, without `days > 0 ? days : 0`
Report_getDaysUntilShortageRaw(shortage, t) ==
    IF shortage = NULL THEN NULL ELSE floorDays(shortage, t)

\* ReorderReport.getDaysUntilShortage: number | null
Report_getDaysUntilShortage(shortage, t) ==
    IF shortage = NULL THEN NULL
    ELSE IF floorDays(shortage, t) > 0 THEN floorDays(shortage, t) ELSE 0

\* The report's "Days to Shortage" cell
Report_daysCell(shortage, t) ==
    IF Report_getDaysUntilShortage(shortage, t) # NULL
    THEN ToString(Report_getDaysUntilShortage(shortage, t)) \o " days"
    ELSE "N/A"

\* a null column reaches JS arithmetic as 0
jsNum(x) == IF x = NULL THEN 0 ELSE x

\* Math.ceil of a fixed-point value, as a whole number
mathCeil(x) == IF x >= 0 THEN (x + Scale - 1) \div Scale ELSE 0 - ((0 - x) \div Scale)

\* Math.floor in place of Math.ceil
getRecommendedOrderQtyFloor(lead, usage, safety, current) ==
    Max(0, (jsNum(lead) * jsNum(usage) + jsNum(safety) - jsNum(current)) \div Scale)

\* Math.max(0, Math.ceil(lead_time_days * avg_daily_usage + safety_stock - current_quantity))
getRecommendedOrderQty(lead, usage, safety, current) ==
    Max(0, mathCeil(jsNum(lead) * jsNum(usage) + jsNum(safety) - jsNum(current)))

----------------------------------------------------------------------------
\* The store.

Row(q, rp, ss, u, lead, st) ==
    [current_quantity |-> q, reorder_point |-> rp, safety_stock |-> ss,
     avg_daily_usage |-> u, lead_time_days |-> lead, status |-> st,
     shortage_date |-> NULL, updated_at |-> 0,
     supplier_id |-> NoRef, warehouse_id |-> NoRef]

\* from("materials").insert([row]): policy "Admins and managers can insert
\* materials", then the BEFORE INSERT trigger, then the constraints.
storeInsertMaterial(tbl, user, id, row, t) ==
    LET new == update_material_status(row, t)
        ok == /\ has_role(user, "admin") \/ has_role(user, "manager")
              /\ id \notin DOMAIN tbl
              /\ rowConstraints(new)
              /\ foreignKeys(new)
    IN  [error |-> ~ok,
         changed |-> ok,
         table |-> IF ok
                   THEN [m \in DOMAIN tbl \cup {id} |-> IF m = id THEN new ELSE tbl[m]]
                   ELSE tbl]

\* the update without its .eq("id", id) filter: every row gets the patched row
storeUpdateMaterialAll(tbl, user, id, row, t, up) ==
    LET new == update_material_status(row, t)
        ok == up /\ user # NoUser
              /\ (id \in DOMAIN tbl => rowConstraints(new) /\ foreignKeys(new))
        hit == ok /\ id \in DOMAIN tbl
    IN  [error |-> ~ok,
         changed |-> hit,
         table |-> IF hit THEN [m \in DOMAIN tbl |-> new] ELSE tbl]

\* from("materials").update(patch).eq("id", id): policy "All authenticated
\* users can update materials", then the BEFORE UPDATE trigger, then the
\* constraints. `row` is the stored row with the patch applied. An id that
\* matches no row updates nothing and is no error. `up` is whether the
\* request reaches the store and is served.
storeUpdateMaterial(tbl, user, id, row, t, up) ==
    LET new == update_material_status(row, t)
        ok == up /\ user # NoUser
              /\ (id \in DOMAIN tbl => rowConstraints(new) /\ foreignKeys(new))
        hit == ok /\ id \in DOMAIN tbl
    IN  [error |-> ~ok,
         changed |-> hit,
         table |-> IF hit THEN [tbl EXCEPT ![id] = new] ELSE tbl]

\* the insert without the policy's user_id = auth.uid()
storeInsertHistoryAnyUser(hist, tbl, uid, entry, up) ==
    LET ok == /\ up
              /\ uid # NoUser
              /\ entry.material_id \in DOMAIN tbl
    IN  [error |-> ~ok,
         changed |-> ok,
         table |-> IF ok THEN Append(hist, entry) ELSE hist]

\* from("stock_history").insert([entry]): policy "Authenticated users can
\* insert stock history" (user_id = auth.uid()), the foreign key on
\* material_id and the NOT NULL columns.
storeInsertHistory(hist, tbl, uid, entry, up) ==
    LET ok == /\ up
              /\ uid # NoUser /\ entry.user_id = uid
              /\ entry.material_id \in DOMAIN tbl
    IN  [error |-> ~ok,
         changed |-> ok,
         table |-> IF ok THEN Append(hist, entry) ELSE hist]

\* select("id, material_code, name, current_quantity, unit")
snapshot(tbl) == [m \in DOMAIN tbl |-> tbl[m].current_quantity]

\* gen_random_uuid() for a supplier or a warehouse
freshOf(order, used) ==
    LET free == {i \in 1..Len(order) : order[i] \notin used}
    IN  order[CHOOSE i \in free : \A j \in free : i <= j]

\* from(table).delete().eq("id", id) on materials: policy "Admins can delete
\* materials"; a row the policy hides is not deleted and that is no error.
\* stock_history.material_id ... ON DELETE CASCADE removes the row's entries.
storeDeleteMaterial(tbl, hist, user, id) ==
    LET hit == has_role(user, "admin") /\ id \in DOMAIN tbl
    IN  [error |-> FALSE,
         changed |-> hit,
         table |-> IF hit THEN [m \in DOMAIN tbl \ {id} |-> tbl[m]] ELSE tbl,
         history |-> IF hit THEN SelectSeq(hist, LAMBDA e : e.material_id # id) ELSE hist]

\* the referencing rows deleted with the referenced row
detachCascade(tbl, col, id, t) ==
    [m \in {x \in DOMAIN tbl : tbl[x][col] # id} |-> tbl[m]]

\* ON DELETE SET NULL: the referencing materials rows are updated (column set
\* to null), which fires the BEFORE UPDATE trigger on each of them
detach(tbl, col, id, t) ==
    [m \in DOMAIN tbl |->
        IF tbl[m][col] = id
        THEN update_material_status([tbl[m] EXCEPT ![col] = NoRef], t)
        ELSE tbl[m]]

\* delete on suppliers: policy "Admins can delete suppliers", then
\* materials.supplier_id ... ON DELETE SET NULL
storeDeleteSupplier(sup, tbl, user, id, t) ==
    LET hit == has_role(user, "admin") /\ id \in sup
    IN  [error |-> FALSE,
         changed |-> hit,
         table |-> IF hit THEN sup \ {id} ELSE sup,
         materials |-> IF hit THEN detach(tbl, "supplier_id", id, t) ELSE tbl]

\* delete on warehouses: policy "Admins can delete warehouses", then
\* materials.warehouse_id ... ON DELETE SET NULL
storeDeleteWarehouse(wh, tbl, user, id, t) ==
    LET hit == has_role(user, "admin") /\ id \in wh
    IN  [error |-> FALSE,
         changed |-> hit,
         table |-> IF hit THEN wh \ {id} ELSE wh,
         materials |-> IF hit THEN detach(tbl, "warehouse_id", id, t) ELSE tbl]

\* insert on suppliers: policy "Admins and managers can insert suppliers"
storeInsertSupplier(sup, user, id) ==
    LET ok == has_role(user, "admin") \/ has_role(user, "manager")
    IN  [error |-> ~ok, changed |-> ok, table |-> IF ok THEN sup \cup {id} ELSE sup]

\* insert on warehouses: policy "Admins can insert warehouses"
storeInsertWarehouse(wh, user, id) ==
    LET ok == has_role(user, "admin")
    IN  [error |-> ~ok, changed |-> ok, table |-> IF ok THEN wh \cup {id} ELSE wh]

\* stock_history.id of the entries, by position
entryIds(hist) == {"h" \o ToString(i) : i \in 1..Len(hist)}

\* select on a table: the SELECT policies are TO authenticated USING (true)
storeSelect(rows, user) == IF user # NoUser THEN rows ELSE {}

----------------------------------------------------------------------------
\* Inputs.

\* the quantity input is `required` and shows 0 as empty: a submitted change is not 0
Deltas == ((0 - MaxDelta)..MaxDelta) \ {0}
FormQty == (0 - 1)..MaxQty
FormThreshold == 1..MaxThreshold
FormUsage == {NULL, 0 - 1, 0, MaxUsage}
FormLead == 1..MaxLead
FormStatus == Status

NoReq == [material |-> NoSelection, before |-> 0, newQuantity |-> 0, change |-> 0,
          user |-> NoUser]
NoRes == [outcome |-> "none", updIssued |-> FALSE, updated |-> FALSE, insIssued |-> FALSE, inserted |-> FALSE]

NoProbe == [fn |-> "none", args |-> <<>>, done |-> FALSE, text |-> "", num |-> 0]
NoFetch == [from |-> "none", rows |-> {}]

\* a material as the migration's sample INSERT leaves it (the trigger has run),
\* scaled to the bounds: like STL-001 it is above its safety stock and not
\* above its reorder point
InitRows ==
    {update_material_status([Row(2, 2, 1, 2, 1, "safe") EXCEPT !.supplier_id = "s1",
                                                                !.warehouse_id = "w1"], 0)}

Init ==
    /\ materials \in [{"m1"} -> InitRows]
    /\ history = <<>>
    /\ now = 0
    /\ cache = [c \in Clients |-> <<>>]
    /\ pc = [c \in Clients |-> "idle"]
    /\ req = [c \in Clients |-> NoReq]
    /\ res = [c \in Clients |-> NoRes]
    /\ toast = [c \in Clients |-> "none"]
    /\ nSubmits = 0
    /\ created_qty = [m \in DOMAIN materials |-> materials[m].current_quantity]
    /\ probe = NoProbe
    /\ suppliers = {"s1"}
    /\ warehouses = {"w1"}
    /\ fetched = NoFetch

----------------------------------------------------------------------------
\* StockUpdates page.

\* fetchMaterials, on mount
fetchMaterials(c) ==
    /\ pc[c] = "idle"
    /\ cache' = [cache EXCEPT ![c] = snapshot(materials)]
    /\ UNCHANGED <<materials, history, now, pc, req, res, toast, nSubmits, created_qty, probe, suppliers, warehouses, fetched>>

\* handleSubmit without its newQuantity < 0 check
handleSubmitNoCheck(c, sel, delta, user) ==
    /\ pc[c] = "idle"
    /\ nSubmits < MaxSubmits
    /\ nSubmits' = nSubmits + 1
    /\ LET found == sel # NoSelection /\ sel \in DOMAIN cache[c]
           before == IF found THEN cache[c][sel] ELSE NULL
           outcome == IF sel = NoSelection THEN "no_selection"
                      ELSE IF ~found THEN "not_found"
                      ELSE IF user = NoUser THEN "no_user"
                      ELSE "pending"
       IN  /\ found => before + delta <= MaxQty
           /\ res' = [res EXCEPT ![c] = [NoRes EXCEPT !.outcome = outcome]]
           /\ toast' = [toast EXCEPT ![c] = IF outcome = "no_selection" THEN "error" ELSE "none"]
           /\ pc' = [pc EXCEPT ![c] = IF outcome = "pending" THEN "update" ELSE "idle"]
           /\ req' = [req EXCEPT ![c] = IF outcome = "pending"
                                        THEN [material |-> sel, before |-> before,
                                              newQuantity |-> before + delta,
                                              change |-> delta, user |-> user]
                                        ELSE NoReq]
    /\ UNCHANGED <<materials, history, now, cache, created_qty, probe, suppliers, warehouses, fetched>>

\* handleSubmit up to `await supabase.auth.getUser()`: the selection check, the
\* lookup in the fetched list, the negative-quantity check, the user check.
handleSubmit(c, sel, delta, user) ==
    /\ pc[c] = "idle"
    /\ nSubmits < MaxSubmits
    /\ nSubmits' = nSubmits + 1
    /\ LET found == sel # NoSelection /\ sel \in DOMAIN cache[c]
           before == IF found THEN cache[c][sel] ELSE NULL
           outcome == IF sel = NoSelection THEN "no_selection"
                      ELSE IF ~found THEN "not_found"
                      ELSE IF before + delta < 0 THEN "negative"
                      ELSE IF user = NoUser THEN "no_user"
                      ELSE "pending"
       IN  /\ found => before + delta <= MaxQty
           /\ res' = [res EXCEPT ![c] = [NoRes EXCEPT !.outcome = outcome]]
           /\ toast' = [toast EXCEPT ![c] = IF outcome \in {"no_selection", "negative"}
                                            THEN "error" ELSE "none"]
           /\ pc' = [pc EXCEPT ![c] = IF outcome = "pending" THEN "update" ELSE "idle"]
           /\ req' = [req EXCEPT ![c] = IF outcome = "pending"
                                        THEN [material |-> sel, before |-> before,
                                              newQuantity |-> before + delta,
                                              change |-> delta, user |-> user]
                                        ELSE NoReq]
    /\ UNCHANGED <<materials, history, now, cache, created_qty, probe, suppliers, warehouses, fetched>>

\* handleSubmit without the return of its updateError branch
handleSubmit_updateGoesOn(c, up) ==
    /\ pc[c] = "update"
    /\ LET id == req[c].material
           patched == IF id \in DOMAIN materials
                      THEN [materials[id] EXCEPT !.current_quantity = req[c].newQuantity]
                      ELSE Row(0, 0, 0, 0, 1, "safe")
           r == storeUpdateMaterial(materials, req[c].user, id, patched, now, up)
       IN  /\ materials' = r.table
           /\ res' = [res EXCEPT ![c].updIssued = TRUE, ![c].updated = r.changed,
                                 ![c].outcome = IF r.error THEN "update_rejected" ELSE @]
           /\ toast' = [toast EXCEPT ![c] = IF r.error THEN "error" ELSE @]
           /\ pc' = [pc EXCEPT ![c] = "insert"]
           /\ req' = req
    /\ UNCHANGED <<history, now, cache, nSubmits, created_qty, probe, suppliers, warehouses, fetched>>

\* handleSubmit: update({ current_quantity: newQuantity }).eq("id", selectedMaterial)
\* and the updateError branch
handleSubmit_update(c, up) ==
    /\ pc[c] = "update"
    /\ LET id == req[c].material
           patched == IF id \in DOMAIN materials
                      THEN [materials[id] EXCEPT !.current_quantity = req[c].newQuantity]
                      ELSE Row(0, 0, 0, 0, 1, "safe")
           r == storeUpdateMaterial(materials, req[c].user, id, patched, now, up)
       IN  /\ materials' = r.table
           /\ res' = [res EXCEPT ![c].updIssued = TRUE, ![c].updated = r.changed,
                                 ![c].outcome = IF r.error THEN "update_rejected" ELSE @]
           /\ toast' = [toast EXCEPT ![c] = IF r.error THEN "error" ELSE @]
           /\ pc' = [pc EXCEPT ![c] = IF r.error THEN "idle" ELSE "insert"]
           /\ req' = [req EXCEPT ![c] = IF r.error THEN NoReq ELSE @]
    /\ UNCHANGED <<history, now, cache, nSubmits, created_qty, probe, suppliers, warehouses, fetched>>

\* the entry's quantity_before read from the row after the update
handleSubmit_insertFreshBefore(c, up) ==
    /\ pc[c] = "insert"
    /\ LET id == req[c].material
           entry == [material_id |-> id, user_id |-> req[c].user,
                     quantity_before |-> IF id \in DOMAIN materials
                                         THEN materials[id].current_quantity
                                         ELSE req[c].before,
                     quantity_after |-> req[c].newQuantity,
                     quantity_change |-> req[c].change]
           r == storeInsertHistory(history, materials, SessionUser[c], entry, up)
       IN  /\ history' = r.table
           /\ res' = [res EXCEPT ![c].insIssued = TRUE, ![c].inserted = r.changed,
                                 ![c].outcome = IF r.error THEN "history_rejected" ELSE "success"]
           /\ toast' = [toast EXCEPT ![c] = IF r.error THEN "error" ELSE "success"]
           /\ pc' = [pc EXCEPT ![c] = IF r.error THEN "idle" ELSE "refresh"]
           /\ req' = [req EXCEPT ![c] = NoReq]
    /\ UNCHANGED <<materials, now, cache, nSubmits, created_qty, probe, suppliers, warehouses, fetched>>

\* handleSubmit: from("stock_history").insert([...]) and the historyError branch;
\* on success the form is reset and fetchMaterials / fetchHistory are started
handleSubmit_insert(c, up) ==
    /\ pc[c] = "insert"
    /\ LET entry == [material_id |-> req[c].material, user_id |-> req[c].user,
                     quantity_before |-> req[c].before,
                     quantity_after |-> req[c].newQuantity,
                     quantity_change |-> req[c].change]
           r == storeInsertHistory(history, materials, SessionUser[c], entry, up)
       IN  /\ history' = r.table
           /\ res' = [res EXCEPT ![c].insIssued = TRUE, ![c].inserted = r.changed,
                                 ![c].outcome = IF r.error THEN "history_rejected" ELSE "success"]
           /\ toast' = [toast EXCEPT ![c] = IF r.error THEN "error" ELSE "success"]
           /\ pc' = [pc EXCEPT ![c] = IF r.error THEN "idle" ELSE "refresh"]
           /\ req' = [req EXCEPT ![c] = NoReq]
    /\ UNCHANGED <<materials, now, cache, nSubmits, created_qty, probe, suppliers, warehouses, fetched>>

\* the fetchMaterials() and fetchHistory() started by a successful handleSubmit
handleSubmit_refresh(c) ==
    /\ pc[c] = "refresh"
    /\ cache' = [cache EXCEPT ![c] = snapshot(materials)]
    /\ fetched' = [from |-> "stock_history",
                   rows |-> storeSelect(entryIds(history), SessionUser[c])]
    /\ pc' = [pc EXCEPT ![c] = "idle"]
    /\ UNCHANGED <<materials, history, now, req, res, toast, nSubmits, created_qty, probe,
                   suppliers, warehouses>>

\* time passes
Tick ==
    /\ now < MaxNow
    /\ now' = now + 1
    /\ UNCHANGED <<materials, history, cache, pc, req, res, toast, nSubmits, created_qty, probe, suppliers, warehouses, fetched>>

----------------------------------------------------------------------------
\* Materials page.

\* gen_random_uuid(): an id no row has
freshId(tbl) ==
    LET free == {i \in 1..Len(MatOrder) : MatOrder[i] \notin DOMAIN tbl}
    IN  MatOrder[CHOOSE i \in free : \A j \in free : i <= j]

\* Materials.handleSubmit: update(formData).eq("id", editingMaterial.id) when a
\* material is being edited, insert([formData]) otherwise, and fetchMaterials
\* when the request reports no error. The form's payload carries no status
\* column (st = "unset"); another caller's payload may.
Materials_handleSubmit(c, editing, q, rp, ss, u, lead, st, sup, wh) ==
    /\ nSubmits < MaxSubmits
    /\ nSubmits' = nSubmits + 1
    /\ IF editing # NoSelection
       THEN LET old == IF editing \in DOMAIN materials THEN materials[editing]
                       ELSE Row(0, 0, 0, 0, 1, "safe")
                patched == [old EXCEPT !.current_quantity = q, !.reorder_point = rp,
                                       !.safety_stock = ss, !.avg_daily_usage = u,
                                       !.lead_time_days = lead,
                                       !.status = IF st = "unset" THEN @ ELSE st,
                                       !.supplier_id = sup, !.warehouse_id = wh]
                r == storeUpdateMaterial(materials, SessionUser[c], editing, patched, now, TRUE)
            IN  /\ materials' = r.table
                /\ fetched' = IF r.error THEN fetched
                              ELSE [from |-> "materials",
                                    rows |-> storeSelect(DOMAIN r.table, SessionUser[c])]
                /\ UNCHANGED created_qty
       ELSE /\ MatIds \ DOMAIN materials # {}
            /\ LET id == freshId(materials)
                   row == [Row(q, rp, ss, u, lead, IF st = "unset" THEN "safe" ELSE st)
                              EXCEPT !.supplier_id = sup, !.warehouse_id = wh]
                   r == storeInsertMaterial(materials, SessionUser[c], id, row, now)
               IN  /\ materials' = r.table
                   /\ fetched' = IF r.error THEN fetched
                                 ELSE [from |-> "materials",
                                       rows |-> storeSelect(DOMAIN r.table, SessionUser[c])]
                   /\ created_qty' = IF r.changed
                                     THEN [m \in DOMAIN r.table |->
                                             IF m = id THEN r.table[id].current_quantity
                                             ELSE created_qty[m]]
                                     ELSE created_qty
    /\ UNCHANGED <<history, now, cache, pc, req, res, toast, probe, suppliers, warehouses>>

\* Materials.fetchMaterials: select("*") on materials
Materials_fetchMaterials(c) ==
    /\ fetched' = [from |-> "materials", rows |-> storeSelect(DOMAIN materials, SessionUser[c])]
    /\ UNCHANGED <<materials, history, now, cache, pc, req, res, toast, nSubmits,
                   created_qty, probe, suppliers, warehouses>>

\* Materials.fetchSuppliers: select("id, name") on suppliers
Materials_fetchSuppliers(c) ==
    /\ fetched' = [from |-> "suppliers", rows |-> storeSelect(suppliers, SessionUser[c])]
    /\ UNCHANGED <<materials, history, now, cache, pc, req, res, toast, nSubmits,
                   created_qty, probe, suppliers, warehouses>>

\* Warehouses.fetchWarehouses: select("*") on warehouses
fetchWarehouses(c) ==
    /\ fetched' = [from |-> "warehouses", rows |-> storeSelect(warehouses, SessionUser[c])]
    /\ UNCHANGED <<materials, history, now, cache, pc, req, res, toast, nSubmits,
                   created_qty, probe, suppliers, warehouses>>

\* StockUpdates.fetchHistory: select on stock_history, the newest 20 entries
\* (MaxSubmits entries at most are ever written here)
fetchHistory(c) ==
    /\ fetched' = [from |-> "stock_history",
                   rows |-> storeSelect(entryIds(history), SessionUser[c])]
    /\ UNCHANGED <<materials, history, now, cache, pc, req, res, toast, nSubmits,
                   created_qty, probe, suppliers, warehouses>>

\* Materials.handleEdit and handleSubmit: the form filled from the listed
\* material (a null reference becomes ""), the quantity changed, submitted
Materials_handleEdit(c, editing, q) ==
    /\ editing \in DOMAIN materials
    /\ LET r == materials[editing]
       IN  Materials_handleSubmit(c, editing, q, r.reorder_point, r.safety_stock,
                                  r.avg_daily_usage, r.lead_time_days, "unset",
                                  IF r.supplier_id = NoRef THEN "" ELSE r.supplier_id,
                                  IF r.warehouse_id = NoRef THEN "" ELSE r.warehouse_id)

\* Materials.handleDelete, the confirm accepted: delete().eq("id", id); the
\* request reports no error, and the list is fetched again
Materials_handleDelete(c, id) ==
    /\ LET r == storeDeleteMaterial(materials, history, SessionUser[c], id)
       IN  /\ materials' = r.table
           /\ history' = r.history
           /\ created_qty' = [m \in DOMAIN r.table |-> created_qty[m]]
           /\ fetched' = [from |-> "materials",
                          rows |-> storeSelect(DOMAIN r.table, SessionUser[c])]
    /\ UNCHANGED <<now, cache, pc, req, res, toast, nSubmits, probe, suppliers, warehouses>>

\* Warehouses.handleSubmit with no warehouse being edited: insert([formData]),
\* and fetchWarehouses when the insert is accepted
Warehouses_handleSubmit(c) ==
    /\ WhIds \ warehouses # {}
    /\ LET r == storeInsertWarehouse(warehouses, SessionUser[c], freshOf(WhOrder, warehouses))
       IN  /\ warehouses' = r.table
           /\ fetched' = IF r.error THEN fetched
                         ELSE [from |-> "warehouses",
                               rows |-> storeSelect(r.table, SessionUser[c])]
    /\ UNCHANGED <<materials, history, now, cache, pc, req, res, toast, nSubmits,
                   created_qty, probe, suppliers>>

\* Warehouses.handleDelete, the confirm accepted: delete().eq("id", id), then
\* fetchWarehouses
Warehouses_handleDelete(c, id) ==
    /\ LET r == storeDeleteWarehouse(warehouses, materials, SessionUser[c], id, now)
       IN  /\ warehouses' = r.table
           /\ materials' = r.materials
           /\ fetched' = [from |-> "warehouses",
                          rows |-> storeSelect(r.table, SessionUser[c])]
    /\ UNCHANGED <<history, now, cache, pc, req, res, toast, nSubmits, created_qty,
                   probe, suppliers>>

\* the suppliers page's insert, as the warehouses page's
Suppliers_handleSubmit(c) ==
    /\ SupIds \ suppliers # {}
    /\ LET r == storeInsertSupplier(suppliers, SessionUser[c], freshOf(SupOrder, suppliers))
       IN  /\ suppliers' = r.table
           /\ fetched' = IF r.error THEN fetched
                         ELSE [from |-> "suppliers",
                               rows |-> storeSelect(r.table, SessionUser[c])]
    /\ UNCHANGED <<materials, history, now, cache, pc, req, res, toast, nSubmits,
                   created_qty, probe, warehouses>>

\* the suppliers page's delete, as the warehouses page's
Suppliers_handleDelete(c, id) ==
    /\ LET r == storeDeleteSupplier(suppliers, materials, SessionUser[c], id, now)
       IN  /\ suppliers' = r.table
           /\ materials' = r.materials
           /\ fetched' = [from |-> "suppliers",
                          rows |-> storeSelect(r.table, SessionUser[c])]
    /\ UNCHANGED <<history, now, cache, pc, req, res, toast, nSubmits, created_qty,
                   probe, warehouses>>

\* the form with the first supplier and the first warehouse selected
FormInputs(c, editing) ==
    \E q \in FormQty, rp \in FormThreshold, ss \in FormThreshold, u \in FormUsage,
       lead \in FormLead, st \in FormStatus \cup {"unset"} :
        Materials_handleSubmit(c, editing, q, rp, ss, u, lead, st, SupOrder[1], WhOrder[1])

NextLedger ==
    \/ \E c \in Clients : fetchMaterials(c)
    \/ \E c \in Clients, sel \in MatIds \cup {NoSelection}, delta \in Deltas :
          \E user \in {SessionUser[c], NoUser} : handleSubmit(c, sel, delta, user)
    \/ \E c \in Clients, up \in BOOLEAN : handleSubmit_update(c, up)
    \/ \E c \in Clients, up \in BOOLEAN : handleSubmit_insert(c, up)
    \/ \E c \in Clients : handleSubmit_refresh(c)
    \/ Tick

SpecLedger == Init /\ [][NextLedger]_vars

\* the material of InitRows at each quantity the CHECK allows
AnyRows ==
    {update_material_status([r EXCEPT !.current_quantity = q], 0) :
        r \in InitRows, q \in 0..MaxQty}

\* the ledger started from any of these quantities
InitAny ==
    /\ materials \in [{"m1"} -> AnyRows]
    /\ history = <<>>
    /\ now = 0
    /\ cache = [c \in Clients |-> <<>>]
    /\ pc = [c \in Clients |-> "idle"]
    /\ req = [c \in Clients |-> NoReq]
    /\ res = [c \in Clients |-> NoRes]
    /\ toast = [c \in Clients |-> "none"]
    /\ nSubmits = 0
    /\ created_qty = [m \in DOMAIN materials |-> materials[m].current_quantity]
    /\ probe = NoProbe
    /\ suppliers = {"s1"}
    /\ warehouses = {"w1"}
    /\ fetched = NoFetch

SpecLedgerAny == InitAny /\ [][NextLedger]_vars

NextCatalog ==
    \* an insert from either session (the manager's passes the policy, the
    \* operator's does not); an edit from the operator's, which the policy allows
    \/ \E c \in Clients : FormInputs(c, NoSelection)
    \/ \E editing \in MatIds : FormInputs("c2", editing)
    \/ fetchMaterials("c1")
    \/ \E sel \in MatIds \cup {NoSelection}, delta \in Deltas, user \in {SessionUser["c1"], NoUser} :
          handleSubmit("c1", sel, delta, user)
    \/ \E up \in BOOLEAN : handleSubmit_update("c1", up)
    \/ \E up \in BOOLEAN : handleSubmit_insert("c1", up)
    \/ handleSubmit_refresh("c1")
    \/ Tick

SpecCatalog == Init /\ [][NextCatalog]_vars

\* the three roles' sessions on the materials, warehouses and suppliers
\* pages, and the operator's on the StockUpdates page
NextStore ==
    \/ \E c \in Sessions, q \in {0 - 1, MaxQty}, sup \in {SupOrder[1], ""} :
          Materials_handleSubmit(c, NoSelection, q, MaxThreshold, 1, MaxUsage, 1, "unset",
                                 sup, WhOrder[1])
    \/ \E c \in Sessions, editing \in MatIds : Materials_handleEdit(c, editing, 1)
    \/ \E c \in Sessions, id \in MatIds : Materials_handleDelete(c, id)
    \/ \E c \in Sessions : Warehouses_handleSubmit(c)
    \/ \E c \in Sessions, id \in WhIds : Warehouses_handleDelete(c, id)
    \/ \E c \in Sessions : Suppliers_handleSubmit(c)
    \/ \E c \in Sessions, id \in SupIds : Suppliers_handleDelete(c, id)
    \/ \E c \in Sessions : Materials_fetchMaterials(c)
    \/ \E c \in Sessions : Materials_fetchSuppliers(c)
    \/ \E c \in Sessions : fetchWarehouses(c)
    \/ \E c \in Sessions : fetchHistory(c)
    \/ fetchMaterials("c2")
    \/ \E sel \in MatIds, delta \in {0 - 1, 1} : handleSubmit("c2", sel, delta, SessionUser["c2"])
    \/ handleSubmit_update("c2", TRUE)
    \/ handleSubmit_insert("c2", TRUE)
    \/ handleSubmit_refresh("c2")
    \/ Tick

SpecStore == Init /\ [][NextStore]_vars

----------------------------------------------------------------------------
\* The stock_history insert policy under any request: the StockUpdates page's
\* inserts, and inserts sent to the store with any user_id by any caller.

Users == {"u1", "u2", "u3"}

\* from("stock_history").insert([{ material_id, user_id, ... }]) sent by
\* `actor` (NoUser: not signed in), recording no change of quantity
insertStockHistory(actor, uid, m) ==
    /\ Len(history) < MaxSubmits
    /\ m \in DOMAIN materials
    /\ LET q == materials[m].current_quantity
           entry == [material_id |-> m, user_id |-> uid, quantity_before |-> q,
                     quantity_after |-> q, quantity_change |-> 0]
           r == storeInsertHistory(history, materials, actor, entry, TRUE)
       IN  history' = r.table
    /\ UNCHANGED <<materials, now, cache, pc, req, res, toast, nSubmits, created_qty, probe,
                   suppliers, warehouses, fetched>>

NextHistory ==
    \/ \E actor \in Users \cup {NoUser}, uid \in Users, m \in MatIds :
          insertStockHistory(actor, uid, m)
    \/ \E c \in Clients : fetchMaterials(c)
    \/ \E c \in Clients, sel \in MatIds, delta \in {0 - 1, 1} :
          handleSubmit(c, sel, delta, SessionUser[c])
    \/ \E c \in Clients : handleSubmit_update(c, TRUE)
    \/ \E c \in Clients, up \in BOOLEAN : handleSubmit_insert(c, up)
    \/ \E c \in Clients : handleSubmit_refresh(c)

SpecHistory == Init /\ [][NextHistory]_vars

----------------------------------------------------------------------------
\* The reorder report's query, on tables of three materials. The rows here
\* carry material_code, which no operation of the other specifications reads.

ReportIds == {"m1", "m2", "m3"}
\* material codes, in ascending order
CodeOrder == <<"CHM-003", "PLS-002", "STL-001">>
codeRank(code) == CHOOSE i \in 1..Len(CodeOrder) : CodeOrder[i] = code
\* CREATE TYPE stock_status AS ENUM ('critical', 'low', 'safe'): the sort order
StatusOrder == <<"critical", "low", "safe">>
statusRank(st) == CHOOSE i \in 1..Len(StatusOrder) : StatusOrder[i] = st

\* the sequences that list each element of S once
Orderings(S) ==
    {seq \in [1..Cardinality(S) -> S] : \A i, j \in 1..Cardinality(S) : seq[i] = seq[j] => i = j}

\* tables whose rows went through the trigger, each with its own code
ReportTables ==
    {[m \in ReportIds |->
        [material_code |-> CodeOrder[code[m]]] @@
        update_material_status(Row(q[m], MaxThreshold, 1, MaxUsage, 1, "safe"), 0)] :
            q \in [ReportIds -> 0..MaxQty],
            code \in {f \in [ReportIds -> 1..Len(CodeOrder)] :
                        \A a, b \in ReportIds : f[a] = f[b] => a = b}}

InitReport ==
    /\ materials \in ReportTables
    /\ history = <<>>
    /\ now = 0
    /\ cache = [c \in Clients |-> <<>>]
    /\ pc = [c \in Clients |-> "idle"]
    /\ req = [c \in Clients |-> NoReq]
    /\ res = [c \in Clients |-> NoRes]
    /\ toast = [c \in Clients |-> "none"]
    /\ nSubmits = 0
    /\ created_qty = [m \in DOMAIN materials |-> materials[m].current_quantity]
    /\ probe = NoProbe
    /\ suppliers = {}
    /\ warehouses = {}
    /\ fetched = NoFetch

\* the query without its .or(...) filter
fetchReorderMaterialsAll(c) ==
    /\ \E rows \in Orderings(storeSelect(DOMAIN materials, SessionUser[c])) :
          /\ \A i, j \in 1..Len(rows) :
                i < j => statusRank(materials[rows[i]].status) <= statusRank(materials[rows[j]].status)
          /\ fetched' = [from |-> "reorder", rows |-> rows]
    /\ UNCHANGED <<materials, history, now, cache, pc, req, res, toast, nSubmits,
                   created_qty, probe, suppliers, warehouses>>

\* the report built from the quantities the session's stock page fetched
\* earlier, where it has them, instead of a query of the table
fetchReorderMaterialsCached(c) ==
    /\ LET seen(m) == IF m \in DOMAIN cache[c] THEN cache[c][m]
                      ELSE materials[m].current_quantity
           st(m) == deriveStatus(seen(m), materials[m].safety_stock, materials[m].reorder_point)
       IN  \E rows \in Orderings({m \in storeSelect(DOMAIN materials, SessionUser[c]) :
                                    st(m) \in {"critical", "low"}}) :
              /\ \A i, j \in 1..Len(rows) : i < j => statusRank(st(rows[i])) <= statusRank(st(rows[j]))
              /\ fetched' = [from |-> "reorder", rows |-> rows]
    /\ UNCHANGED <<materials, history, now, cache, pc, req, res, toast, nSubmits,
                   created_qty, probe, suppliers, warehouses>>

\* ReorderReport.fetchReorderMaterials: select ... .or("status.eq.critical,
\* status.eq.low").order("status"). The rows come back in ascending status;
\* rows of one status come back in whatever order the store produces them.
fetchReorderMaterials(c) ==
    /\ \E rows \in Orderings({m \in storeSelect(DOMAIN materials, SessionUser[c]) :
                                materials[m].status \in {"critical", "low"}}) :
          /\ \A i, j \in 1..Len(rows) :
                i < j => statusRank(materials[rows[i]].status) <= statusRank(materials[rows[j]].status)
          /\ fetched' = [from |-> "reorder", rows |-> rows]
    /\ UNCHANGED <<materials, history, now, cache, pc, req, res, toast, nSubmits,
                   created_qty, probe, suppliers, warehouses>>

NextReport == \E c \in Sessions : fetchReorderMaterials(c)

SpecReport == InitReport /\ [][NextReport]_vars

\* the report page opened at any time while two sessions adjust stock
NextReportLive ==
    \/ NextLedger
    \/ \E c \in Clients : fetchReorderMaterials(c)

SpecReportLive == InitAny /\ [][NextReportLive]_vars

----------------------------------------------------------------------------
\* The client-side functions and the trigger's rules on their own: one
\* evaluation per behaviour, the arguments drawn in the initial state.

ExampleNumbers == {150, 200, 450, 500}
StatusArgs == (0..MaxQty) \cup ExampleNumbers
ShortageArgs == {NULL} \cup (0..(MaxNow + MaxQty * TicksPerDay))
ClockArgs == 0..(MaxNow + 2 * TicksPerDay)

ProbeInputs ==
    {[NoProbe EXCEPT !.fn = "deriveStatus", !.args = <<q, s, r>>] :
        q \in StatusArgs, s \in StatusArgs, r \in StatusArgs}
    \cup
    {[NoProbe EXCEPT !.fn = "getRecommendedOrderQty", !.args = <<lead, u, s, q>>] :
        lead \in (1..MaxLead) \cup {NULL, 7},
        u \in FormUsage \cup {1, 50 * Scale},
        s \in (0..MaxThreshold) \cup {200 * Scale},
        q \in (0..MaxQty) \cup {450 * Scale}}
    \cup
    {[NoProbe EXCEPT !.fn = f, !.args = <<sd, t>>] :
        f \in {"Materials.getDaysUntilShortage", "ReorderReport.getDaysUntilShortage",
               "getDaysUntilShortage"},
        sd \in ShortageArgs, t \in ClockArgs}
    \cup
    {[NoProbe EXCEPT !.fn = "deriveShortageDate", !.args = <<q, u, t>>] :
        q \in 0..MaxQty, u \in FormUsage \cup (1..MaxUsage), t \in 0..MaxNow}

InitFn ==
    /\ materials = [m \in {"m1"} |-> CHOOSE r \in InitRows : TRUE]
    /\ history = <<>>
    /\ now = 0
    /\ cache = [c \in Clients |-> <<>>]
    /\ pc = [c \in Clients |-> "idle"]
    /\ req = [c \in Clients |-> NoReq]
    /\ res = [c \in Clients |-> NoRes]
    /\ toast = [c \in Clients |-> "none"]
    /\ nSubmits = 0
    /\ created_qty = [m \in DOMAIN materials |-> materials[m].current_quantity]
    /\ probe \in ProbeInputs
    /\ suppliers = {"s1"}
    /\ warehouses = {"w1"}
    /\ fetched = NoFetch

Eval(fn, text, num) ==
    /\ probe.fn = fn
    /\ ~probe.done
    /\ probe' = [probe EXCEPT !.done = TRUE, !.text = text, !.num = num]
    /\ UNCHANGED <<materials, history, now, cache, pc, req, res, toast, nSubmits, created_qty,
                 suppliers, warehouses, fetched>>

Eval_deriveStatus ==
    Eval("deriveStatus", deriveStatus(probe.args[1], probe.args[2], probe.args[3]), 0)

Eval_getRecommendedOrderQty ==
    Eval("getRecommendedOrderQty", "",
         getRecommendedOrderQty(probe.args[1], probe.args[2], probe.args[3], probe.args[4]))

Eval_Materials_getDaysUntilShortage ==
    Eval("Materials.getDaysUntilShortage",
         Materials_getDaysUntilShortage(probe.args[1], probe.args[2]), 0)

\* the report's cell with the number getDaysUntilShortage returns
Eval_Report_getDaysUntilShortage ==
    Eval("ReorderReport.getDaysUntilShortage",
         Report_daysCell(probe.args[1], probe.args[2]),
         Report_getDaysUntilShortage(probe.args[1], probe.args[2]))

\* one material at one time on both pages: the list's text, the report's number
Eval_getDaysUntilShortage ==
    Eval("getDaysUntilShortage",
         Materials_getDaysUntilShortage(probe.args[1], probe.args[2]),
         Report_getDaysUntilShortage(probe.args[1], probe.args[2]))

Eval_deriveShortageDate ==
    Eval("deriveShortageDate", "",
         deriveShortageDate(probe.args[1], probe.args[2], probe.args[3]))

NextFn ==
    \/ Eval_deriveStatus
    \/ Eval_getRecommendedOrderQty
    \/ Eval_Materials_getDaysUntilShortage
    \/ Eval_Report_getDaysUntilShortage
    \/ Eval_getDaysUntilShortage
    \/ Eval_deriveShortageDate

SpecFn == InitFn /\ [][NextFn]_vars

----------------------------------------------------------------------------
\* Properties of the stock ledger (SpecLedger).

Entries(m) == {i \in 1..Len(history) : history[i].material_id = m}

\* C1: a stock adjustment is atomic: once a submission has run to its end,
\* its material update changed the row if and only if its history entry was
\* written.
C1_Atomic ==
    \A c \in Clients : pc[c] = "idle" => (res[c].updated <=> res[c].inserted)

\* C2: concurrent adjustments to one material serialize: when two sessions
\* have each submitted one adjustment to the same material, both succeeding
\* and nothing else written, the two entries differ in quantity_before and
\* the quantity is the initial quantity plus both changes.
C2_Serialized ==
    \A m \in DOMAIN materials :
        ( /\ nSubmits = 2
          /\ \A c \in Clients : pc[c] \in {"idle", "refresh"} /\ res[c].outcome = "success"
          /\ Len(history) = 2
          /\ Entries(m) = {1, 2}
          /\ history[1].user_id # history[2].user_id )
        => /\ history[1].quantity_before # history[2].quantity_before
           /\ materials[m].current_quantity =
                created_qty[m] + history[1].quantity_change + history[2].quantity_change

\* C3: a submission whose change would take the material's quantity (as the
\* page holds it) below zero is rejected: it ends at once with the error
\* toast, issues no update and no insert, and the materials and
\* stock_history tables are unchanged.
C3_NegativeRejected ==
    [][\A c \in Clients, sel \in MatIds, delta \in Deltas, user \in {"u1", "u2", NoUser} :
          ( /\ handleSubmit(c, sel, delta, user)
            /\ sel \in DOMAIN cache[c]
            /\ cache[c][sel] + delta < 0 )
          => /\ pc'[c] = "idle"
             /\ res'[c].outcome = "negative"
             /\ ~res'[c].updIssued /\ ~res'[c].insIssued
             /\ toast'[c] = "error"
             /\ materials' = materials
             /\ history' = history]_vars

C3_Witness ==
    \E c \in Clients :
        /\ res[c].outcome = "negative"
        /\ pc[c] = "idle"
        /\ ~res[c].updIssued /\ ~res[c].insIssued
        /\ \E m \in DOMAIN cache[c] : cache[c][m] - MaxDelta < 0

\* C4: every stock_history entry written by an adjustment has
\* quantity_after = quantity_before + quantity_change and quantity_after >= 0.
C4_EntryArithmetic ==
    \A i \in 1..Len(history) :
        /\ history[i].quantity_after = history[i].quantity_before + history[i].quantity_change
        /\ history[i].quantity_after >= 0

\* two entries, the second computed from a list fetched before the first
C4_Witness ==
    /\ Len(history) = 2
    /\ history[1].quantity_before = history[2].quantity_before
    /\ history[1].material_id = history[2].material_id

----------------------------------------------------------------------------
\* Properties of the derived columns (SpecCatalog).

StatusRule(q, s, r, st) ==
    /\ q <= s => st = "critical"
    /\ (q > s /\ q <= r) => st = "low"
    /\ (q > s /\ q > r) => st = "safe"

\* C5: every persisted material's status is the one derived from its
\* current_quantity, safety_stock and reorder_point, whatever inserts, edits
\* and adjustments were made and whatever status a payload carried.
C5_StatusConsistent ==
    \A m \in DOMAIN materials :
        StatusRule(materials[m].current_quantity, materials[m].safety_stock,
                   materials[m].reorder_point, materials[m].status)

\* an inserted row and an edited row, one of them not safe
C5_Witness ==
    /\ DOMAIN materials = MatIds
    /\ materials["m1"].updated_at > 0
    /\ materials["m1"].status = "critical"
    /\ materials["m2"].status = "low"

\* C8: the stored shortage_date is null exactly when avg_daily_usage is null
\* or <= 0, and with a null shortage_date both pages display "N/A".
C8_ShortageNull ==
    \A m \in DOMAIN materials :
        LET u == materials[m].avg_daily_usage
            sd == materials[m].shortage_date
        IN  /\ (sd = NULL) <=> (u = NULL \/ u <= 0)
            /\ sd = NULL => /\ Materials_getDaysUntilShortage(sd, now) = "N/A"
                            /\ Report_daysCell(sd, now) = "N/A"

\* a row that had a shortage date and was edited to a usage of 0, one
\* inserted with no usage, and later a row with a positive usage
C8_Witness ==
    /\ DOMAIN materials = MatIds
    /\ materials["m1"].avg_daily_usage = 0 /\ materials["m1"].shortage_date = NULL
    /\ materials["m2"].avg_daily_usage = NULL /\ materials["m2"].shortage_date = NULL

\* C9 as stated: with avg_daily_usage > 0 the shortage date is the time of
\* the write plus floor(current_quantity / avg_daily_usage) whole days.
C9_WholeDays ==
    \A m \in DOMAIN materials :
        LET r == materials[m]
        IN  (r.avg_daily_usage # NULL /\ r.avg_daily_usage > 0)
            => r.shortage_date - r.updated_at =
                 (r.current_quantity \div r.avg_daily_usage) * TicksPerDay

\* C9 amended: with avg_daily_usage > 0 the shortage date is the time of the
\* write plus current_quantity / avg_daily_usage days, the fraction of a day
\* kept (to the nearest tick of the clock).
C9_FractionKept ==
    \A m \in DOMAIN materials :
        LET r == materials[m]
            d == r.shortage_date - r.updated_at
        IN  (r.avg_daily_usage # NULL /\ r.avg_daily_usage > 0)
            => /\ r.shortage_date # NULL
               /\ 2 * (d * r.avg_daily_usage - r.current_quantity * TicksPerDay)
                    <= r.avg_daily_usage
               /\ 2 * (r.current_quantity * TicksPerDay - d * r.avg_daily_usage)
                    <= r.avg_daily_usage

\* a row written after the clock moved whose quotient is not whole
C9_Witness ==
    \E m \in DOMAIN materials :
        LET r == materials[m]
        IN  /\ r.avg_daily_usage # NULL /\ r.avg_daily_usage > 0
            /\ r.updated_at > 0
            /\ r.current_quantity % r.avg_daily_usage # 0
            /\ r.shortage_date > r.updated_at

----------------------------------------------------------------------------
\* Properties of the functions (SpecFn).

Evaluated(fn) == probe.fn = fn /\ probe.done

\* C6: the derived status is critical if quantity <= safety stock (whatever
\* the reorder point), else low if quantity <= reorder point, else safe;
\* equality at a threshold gives the more severe status; (450, 200, 500) is
\* low and a quantity of 150 with a safety stock of 200 is critical.
C6_DeriveStatus ==
    Evaluated("deriveStatus") =>
        LET q == probe.args[1]
            s == probe.args[2]
            r == probe.args[3]
        IN  /\ probe.text \in Status
            /\ StatusRule(q, s, r, probe.text)
            /\ (q = s) => probe.text = "critical"
            /\ (q = r /\ q > s) => probe.text = "low"
            /\ probe.args = <<450, 200, 500>> => probe.text = "low"
            /\ (q = 150 /\ s = 200) => probe.text = "critical"

\* equality at the safety stock with a reorder point below it
C6_Witness ==
    /\ Evaluated("deriveStatus")
    /\ probe.args[1] = probe.args[2]
    /\ probe.args[3] < probe.args[2]
    /\ probe.text = "critical"

\* C7: the recommended order quantity is max(0, ceil(lead time * daily usage
\* + safety stock - current quantity)): never negative, 0 when the current
\* quantity covers lead-time usage plus safety stock, the least whole number
\* covering the shortfall otherwise, and 100 for (7, 50, 200, 450). A null
\* column counts as 0, as it does in the page's arithmetic.
C7_RecommendedQty ==
    Evaluated("getRecommendedOrderQty") =>
        LET Z(x) == IF x = NULL THEN 0 ELSE x
            need == Z(probe.args[1]) * Z(probe.args[2]) + Z(probe.args[3]) - Z(probe.args[4])
            n == probe.num
        IN  /\ n >= 0
            /\ need <= 0 => n = 0
            /\ need > 0 => (n * Scale >= need /\ (n - 1) * Scale < need)
            /\ probe.args = <<7, 50 * Scale, 200 * Scale, 450 * Scale>> => n = 100

\* a shortfall that is not a whole number
C7_Witness ==
    /\ Evaluated("getRecommendedOrderQty")
    /\ probe.args[1] # NULL /\ probe.args[2] # NULL
    /\ (probe.args[1] * probe.args[2] + probe.args[3] - probe.args[4]) % Scale # 0
    /\ probe.args[1] * probe.args[2] + probe.args[3] - probe.args[4] > 0
    /\ probe.num > 0

\* C10: days until shortage is null without a shortage date; otherwise it is
\* floor((shortage date - now) / one day), and every result <= 0 is shown
\* as the stock-out sentinel, never as a negative number and never as a
\* day count, on the materials list and on the reorder report.
C10_StockOutSentinel ==
    (Evaluated("Materials.getDaysUntilShortage") \/ Evaluated("ReorderReport.getDaysUntilShortage")) =>
        LET sd == probe.args[1]
            t == probe.args[2]
        IN  /\ sd = NULL => probe.text = "N/A"
            /\ (sd # NULL /\ sd - t < TicksPerDay) => probe.text = "Stock out"
            /\ \A n \in 1..(MaxNow + MaxQty * TicksPerDay) :
                  (sd # NULL /\ n * TicksPerDay <= sd - t /\ sd - t < (n + 1) * TicksPerDay)
                  => probe.text = ToString(n) \o " days"

----------------------------------------------------------------------------
\* Properties of a submission's outcome (SpecLedger).

Failures == {"no_selection", "not_found", "negative", "no_user",
             "update_rejected", "history_rejected"}

\* C11: an adjustment submitted when no user is signed in fails with an
\* error shown to the user and is rejected before any write: no material
\* update and no history insert is issued.
C11_Unauthenticated ==
    \A c \in Clients :
        (pc[c] = "idle" /\ res[c].outcome = "no_user")
        => /\ toast[c] = "error"
           /\ ~res[c].updIssued /\ ~res[c].insIssued

\* C12: every failed submission is surfaced: whichever way a submission
\* failed (nothing selected, material not in the list, negative result, no
\* user, update rejected, insert rejected), it ended with the error toast.
C12_FailuresSurfaced ==
    \A c \in Clients :
        (pc[c] = "idle" /\ res[c].outcome \in Failures) => toast[c] = "error"

\* C13: round trip: after an adjustment +d and then -d to one material, both
\* succeeding and nothing else written, the material has the quantity and
\* the status it had before, and the two entries' changes sum to zero.
C13_RoundTrip ==
    \A m \in DOMAIN materials :
        ( /\ nSubmits = 2
          /\ \A c \in Clients : pc[c] \in {"idle", "refresh"}
          /\ Len(history) = 2
          /\ Entries(m) = {1, 2}
          /\ history[1].quantity_change + history[2].quantity_change = 0 )
        => \E r \in InitRows :
              /\ materials[m].current_quantity = r.current_quantity
              /\ materials[m].status = r.status

----------------------------------------------------------------------------
\* Properties of deletions (SpecStore).

\* C14: a stock_history entry, once written, is never changed or removed:
\* every step keeps the entries there are, in place, with all their fields.
C14_HistoryImmutable ==
    [][/\ Len(history') >= Len(history)
       /\ \A i \in 1..Len(history) : history'[i] = history[i]]_vars

\* C15: a material that a stock_history entry references is never deleted:
\* every step leaves such a material in the table.
C15_ReferencedKept ==
    [][\A m \in DOMAIN materials : Entries(m) # {} => m \in DOMAIN materials']_vars

SameQuantities(old, new) ==
    /\ new.current_quantity = old.current_quantity
    /\ new.reorder_point = old.reorder_point
    /\ new.safety_stock = old.safety_stock
    /\ new.avg_daily_usage = old.avg_daily_usage
    /\ new.lead_time_days = old.lead_time_days
    /\ new.status = old.status

\* C16: a step that deletes a supplier or a warehouse detaches it: every
\* material is still there with its quantity columns and status as before,
\* the materials that referenced the deleted row have that reference null,
\* every other reference is as before, and stock_history is unchanged.
C16_Detach ==
    [][(suppliers' # suppliers \/ warehouses' # warehouses) =>
          /\ DOMAIN materials' = DOMAIN materials
          /\ history' = history
          /\ \A m \in DOMAIN materials :
                /\ SameQuantities(materials[m], materials'[m])
                /\ materials'[m].supplier_id =
                     IF materials[m].supplier_id \in suppliers'
                     THEN materials[m].supplier_id ELSE NoRef
                /\ materials'[m].warehouse_id =
                     IF materials[m].warehouse_id \in warehouses'
                     THEN materials[m].warehouse_id ELSE NoRef]_vars

\* a material with history whose supplier and warehouse were both deleted
\* after the clock moved
C16_Witness ==
    \E m \in DOMAIN materials :
        /\ materials[m].supplier_id = NoRef
        /\ materials[m].warehouse_id = NoRef
        /\ materials[m].updated_at > 0
        /\ Entries(m) # {}
        /\ suppliers = {} /\ warehouses = {}

----------------------------------------------------------------------------
\* Properties of the policies (SpecStore).

Elevated(c) == {"admin", "manager"} \cap UserRoles[SessionUser[c]] # {}
IsAdmin(c) == "admin" \in UserRoles[SessionUser[c]]
Tables == <<materials, suppliers, warehouses, history>>

\* C19: whatever its role, a signed-in session reads all of materials,
\* suppliers, warehouses and stock_history, and its update of a material is
\* applied; a step that inserts a material, a supplier or a warehouse
\* changes the tables only for an admin or a manager, and a step that
\* deletes one changes them only for an admin; so an operator's insert or
\* delete leaves the tables as they were.
C19_Authorization ==
    [][/\ (fetched' # fetched /\ Tables' = Tables) =>
            \A c \in Sessions :
                /\ (fetched'.from = "materials" /\ Materials_fetchMaterials(c))
                   => fetched'.rows = DOMAIN materials
                /\ (fetched'.from = "suppliers" /\ Materials_fetchSuppliers(c))
                   => fetched'.rows = suppliers
                /\ (fetched'.from = "warehouses" /\ fetchWarehouses(c))
                   => fetched'.rows = warehouses
                /\ (fetched'.from = "stock_history" /\ fetchHistory(c))
                   => fetched'.rows = entryIds(history)
       /\ nSubmits' # nSubmits =>
            \A c \in Sessions, m \in DOMAIN materials :
                ( /\ materials[m].supplier_id \in suppliers
                  /\ materials[m].warehouse_id \in warehouses
                  /\ Materials_handleEdit(c, m, 1) )
                => materials'[m].current_quantity = 1
       /\ Tables' # Tables =>
            \A c \in Sessions :
                /\ \A q \in {0 - 1, MaxQty}, sup \in {SupOrder[1], ""} :
                      Materials_handleSubmit(c, NoSelection, q, MaxThreshold, 1, MaxUsage, 1,
                                             "unset", sup, WhOrder[1])
                      => Elevated(c)
                /\ Suppliers_handleSubmit(c) => Elevated(c)
                /\ Warehouses_handleSubmit(c) => Elevated(c)
                /\ \A id \in MatIds : Materials_handleDelete(c, id) => IsAdmin(c)
                /\ \A id \in SupIds : Suppliers_handleDelete(c, id) => IsAdmin(c)
                /\ \A id \in WhIds : Warehouses_handleDelete(c, id) => IsAdmin(c)
      ]_vars

\* the first material, supplier and warehouse deleted, a second material and
\* a second warehouse inserted, an adjustment to the new material recorded
\* and the history read
C19_Witness ==
    /\ DOMAIN materials = {MatOrder[2]}
    /\ suppliers = {}
    /\ warehouses = {WhOrder[2]}
    /\ Len(history) = 1
    /\ fetched = [from |-> "stock_history", rows |-> {"h1"}]

----------------------------------------------------------------------------
\* Properties of the reorder report (SpecReport).

Listed == {fetched.rows[i] : i \in 1..Len(fetched.rows)}

\* C17: the reorder selection holds exactly the persisted materials whose
\* status is critical or low, each once: all of those, and none that is safe.
C17_Selection ==
    fetched.from = "reorder" =>
        /\ Listed = {m \in DOMAIN materials : materials[m].status \in {"critical", "low"}}
        /\ \A m \in DOMAIN materials : materials[m].status = "safe" => m \notin Listed
        /\ Len(fetched.rows) = Cardinality(Listed)

\* a report of two materials from a table that has a safe one
C17_Witness ==
    /\ fetched.from = "reorder"
    /\ Len(fetched.rows) = 2
    /\ \E m \in DOMAIN materials : materials[m].status = "safe"
    /\ \E m \in DOMAIN materials : materials[m].status = "critical"
    /\ \E m \in DOMAIN materials : materials[m].status = "low"

\* C18: the reorder selection lists every critical material before every
\* low one, and the materials of one status in ascending material_code.
C18_Order ==
    fetched.from = "reorder" =>
        \A i, j \in 1..Len(fetched.rows) :
            i < j =>
                LET a == materials[fetched.rows[i]]
                    b == materials[fetched.rows[j]]
                IN  /\ ~(a.status = "low" /\ b.status = "critical")
                    /\ a.status = b.status =>
                          codeRank(a.material_code) < codeRank(b.material_code)

----------------------------------------------------------------------------
\* Properties of the persisted quantity (SpecCatalog).

\* C20: every persisted material has current_quantity >= 0, whatever
\* inserts and edits the form sent (a negative quantity among them) and
\* whatever adjustments were computed from a list fetched earlier.
C20_NonNegative ==
    \A m \in DOMAIN materials : materials[m].current_quantity >= 0

\* a material inserted through the form and adjusted down to exactly zero
C20_Witness ==
    /\ DOMAIN materials = MatIds
    /\ Len(history) = 1
    /\ history[1].material_id = MatOrder[2]
    /\ history[1].quantity_change < 0
    /\ history[1].quantity_after = 0
    /\ materials[MatOrder[2]].current_quantity = 0

----------------------------------------------------------------------------
\* Properties of the other columns (SpecCatalog).

\* C21: every persisted material has reorder_point >= 0, safety_stock >= 0,
\* avg_daily_usage >= 0 (when it has one) and lead_time_days > 0 (when it
\* has one): a form payload outside these ranges is not persisted.
C21_FieldRanges ==
    \A m \in DOMAIN materials :
        /\ materials[m].reorder_point >= 0
        /\ materials[m].safety_stock >= 0
        /\ materials[m].avg_daily_usage = NULL \/ materials[m].avg_daily_usage >= 0
        /\ materials[m].lead_time_days = NULL \/ materials[m].lead_time_days > 0

----------------------------------------------------------------------------
\* Properties of an adjustment's steps (SpecLedger).

\* C22: when an adjustment's update is applied, the quantity_before the
\* submission holds for its entry is the material's persisted quantity just
\* before the update, and the persisted quantity just after is its
\* quantity_after, even if the material was written since the list was
\* fetched.
C22_BeforeIsPersisted ==
    [][\A c \in Clients :
          (pc[c] = "update" /\ pc'[c] = "insert" /\ req[c].material \in DOMAIN materials)
          => /\ req[c].before = materials[req[c].material].current_quantity
             /\ materials'[req[c].material].current_quantity = req[c].newQuantity]_vars

\* C24: a rejected material update ends the submission with the error
\* toast, both tables as they were and no history insert issued; an update
\* is issued only by a new submission and an insert only after that
\* submission's update, so each submission issues at most one of each.
C24_UpdateRejected ==
    [][\A c \in Clients :
          /\ (pc[c] = "update" /\ res'[c].outcome = "update_rejected")
             => /\ pc'[c] = "idle"
                /\ toast'[c] = "error"
                /\ ~res'[c].insIssued /\ ~res'[c].updated
                /\ materials' = materials
                /\ history' = history
          /\ (pc'[c] = "update" /\ pc[c] # "update")
             => (pc[c] = "idle" /\ nSubmits' = nSubmits + 1)
          /\ (pc'[c] = "insert" /\ pc[c] # "insert") => pc[c] = "update"
          /\ pc[c] = "update" => pc'[c] \in {"update", "insert", "idle"}
          /\ pc[c] = "insert" => pc'[c] \in {"insert", "refresh", "idle"}
          /\ history' # history => Len(history') = Len(history) + 1]_vars

\* a submission that ended at its rejected update, nothing written
C24_Witness ==
    \E c \in Clients :
        /\ pc[c] = "idle"
        /\ res[c].outcome = "update_rejected"
        /\ res[c].updIssued /\ ~res[c].insIssued
        /\ toast[c] = "error"
        /\ history = <<>>

----------------------------------------------------------------------------
\* Properties of the ledger against the edit form (SpecCatalog).

RECURSIVE SumChanges(_, _)
SumChanges(m, n) ==
    IF n = 0 THEN 0
    ELSE SumChanges(m, n - 1) +
         (IF history[n].material_id = m THEN history[n].quantity_change ELSE 0)

\* C25: ledger balance: each material's current_quantity is the quantity it
\* was created with plus the sum of quantity_change over its entries.
C25_LedgerBalance ==
    \A m \in DOMAIN materials :
        materials[m].current_quantity = created_qty[m] + SumChanges(m, Len(history))

----------------------------------------------------------------------------
\* Properties of an adjustment's writes (SpecCatalog).

\* C26: the applied update of an adjustment to material m changes, of m,
\* only current_quantity, status, shortage_date and updated_at, and changes
\* no other material and no history entry; its accepted insert appends one
\* entry that references m and changes nothing else.
C26_Frame ==
    [][\A c \in Clients :
          /\ (pc[c] = "update" /\ pc'[c] = "insert") =>
                LET id == req[c].material
                IN  /\ history' = history
                    /\ DOMAIN materials' = DOMAIN materials
                    /\ \A m \in DOMAIN materials \ {id} : materials'[m] = materials[m]
                    /\ id \in DOMAIN materials =>
                          /\ materials'[id].current_quantity = req[c].newQuantity
                          /\ materials'[id].reorder_point = materials[id].reorder_point
                          /\ materials'[id].safety_stock = materials[id].safety_stock
                          /\ materials'[id].avg_daily_usage = materials[id].avg_daily_usage
                          /\ materials'[id].lead_time_days = materials[id].lead_time_days
                          /\ materials'[id].supplier_id = materials[id].supplier_id
                          /\ materials'[id].warehouse_id = materials[id].warehouse_id
          /\ (pc[c] = "insert" /\ pc'[c] = "refresh") =>
                /\ materials' = materials
                /\ Len(history') = Len(history) + 1
                /\ SubSeq(history', 1, Len(history)) = history
                /\ history'[Len(history')].material_id = req[c].material]_vars

\* an adjustment just recorded for the first material, after the clock
\* moved, with a second material in the table
C26_Witness ==
    \E c \in Clients :
        /\ pc[c] = "refresh"
        /\ DOMAIN materials = MatIds
        /\ Len(history) = 1
        /\ history[1].material_id = MatOrder[1]
        /\ materials[MatOrder[1]].updated_at > 0
        /\ materials[MatOrder[1]].status # materials[MatOrder[2]].status

----------------------------------------------------------------------------
\* Properties of the stock_history insert policy (SpecHistory).

\* C27: every entry is written with the user_id of the signed-in user whose
\* request inserted it: a step that adds an entry is an insert whose
\* user_id is the requester's, so an insert with another user_id, or by
\* nobody signed in, adds no entry.
C27_UserIsActor ==
    [][history' # history =>
          /\ \A actor \in Users \cup {NoUser}, uid \in Users, m \in MatIds :
                insertStockHistory(actor, uid, m) => (actor # NoUser /\ uid = actor)
          /\ \A c \in Clients, up \in BOOLEAN :
                handleSubmit_insert(c, up) =>
                    history'[Len(history')].user_id = SessionUser[c]
          /\ Len(history') = Len(history) + 1
          /\ history'[Len(history')].user_id \in Users]_vars

\* an entry written by the page for one user and an entry sent to the store
\* by another
C27_Witness ==
    /\ Len(history) = 2
    /\ history[1].user_id # history[2].user_id
    /\ \E i \in 1..2 : history[i].quantity_change = 0
    /\ \E i \in 1..2 : history[i].quantity_change # 0

----------------------------------------------------------------------------
\* Properties of the status under adjustments (SpecLedgerAny).

\* C28: status is monotone in the change: the applied update of an
\* adjustment with a change >= 0 never leaves the material with a more
\* severe status than it had, and one with a change <= 0 never with a less
\* severe one (safety_stock and reorder_point are not written here).
C28_Monotone ==
    [][\A c \in Clients :
          (pc[c] = "update" /\ pc'[c] = "insert" /\ req[c].material \in DOMAIN materials)
          => LET old == statusRank(materials[req[c].material].status)
                 new == statusRank(materials'[req[c].material].status)
             IN  /\ req[c].change >= 0 => new >= old
                 /\ req[c].change <= 0 => new <= old]_vars

----------------------------------------------------------------------------
\* Properties of the two days-until-shortage functions (SpecFn).

\* C29: for one shortage date and one time the materials list and the
\* reorder report agree: no value on both for a null date, the same day
\* count when the floored difference is positive, 0 on the report exactly
\* when the list shows "Stock out", and never a negative number.
C29_DaysAgree ==
    Evaluated("getDaysUntilShortage") =>
        LET sd == probe.args[1]
            t == probe.args[2]
        IN  /\ (probe.num = NULL) <=> (probe.text = "N/A")
            /\ (probe.num = NULL) <=> (sd = NULL)
            /\ (probe.num = 0) <=> (probe.text = "Stock out")
            /\ probe.num # NULL => probe.num >= 0
            /\ (probe.num # NULL /\ probe.num > 0) =>
                  /\ probe.text = ToString(probe.num) \o " days"
                  /\ probe.num * TicksPerDay <= sd - t
                  /\ sd - t < (probe.num + 1) * TicksPerDay
            /\ (sd # NULL /\ sd - t >= TicksPerDay) => probe.num > 0

\* a shortage date already past: 0 on the report, "Stock out" on the list
C29_Witness ==
    /\ Evaluated("getDaysUntilShortage")
    /\ probe.args[1] # NULL
    /\ probe.args[1] < probe.args[2]
    /\ probe.num = 0
    /\ probe.text = "Stock out"

----------------------------------------------------------------------------
\* The reorder report among writes (SpecReportLive).

\* what a report step can touch: the tables, the sessions' lists, the rows shown
reportView ==
    <<materials, history, created_qty, cache, fetched.from,
      IF fetched.from = "reorder" THEN fetched.rows ELSE <<>> >>

\* C23: building the reorder report changes no material and no history
\* entry, and the rows it shows are the materials that are critical or low
\* in the table at the time of the call, whatever was fetched before.
C23_ReportReadOnly ==
    [][(/\ fetched'.from = "reorder"
        /\ (fetched.from # "reorder" \/ fetched'.rows # fetched.rows))
       => /\ materials' = materials
          /\ history' = history
          /\ created_qty' = created_qty
          /\ cache' = cache
          /\ {fetched'.rows[i] : i \in 1..Len(fetched'.rows)} =
                {m \in DOMAIN materials : materials[m].status \in {"critical", "low"}}
          /\ Len(fetched'.rows) =
                Cardinality({m \in DOMAIN materials : materials[m].status \in {"critical", "low"}})]_reportView

\* a material created safe is on the report after an adjustment brought it
\* down, while a session still holds the quantity it fetched before
C23_Witness ==
    /\ fetched.from = "reorder"
    /\ fetched.rows = <<"m1">>
    /\ created_qty["m1"] = MaxQty
    /\ materials["m1"].current_quantity < MaxQty
    /\ materials["m1"].status \in {"critical", "low"}
    /\ \E c \in Clients : "m1" \in DOMAIN cache[c] /\ cache[c]["m1"] = MaxQty

====
